---- MODULE Spec2Model ----
(***************************************************************************)
(* Verification model of the two streaming jobs                            *)
(*   src/sparkpyeventskafkastreamtoconsole.py  (Job A, topic stedi-events) *)
(*   src/sparkpyrediskafkastreamtoconsole.py   (Job B, topic redis-server) *)
(*                                                                         *)
(* Text is a TLA+ string, a binary column is a sequence of byte values,    *)
(* a nullable column value is NULL or V(x).  Each DataFrame / temporary    *)
(* view of the scripts is an operator of the same name that maps what the  *)
(* DataFrame before it holds for one Kafka record to what it holds itself. *)
(***************************************************************************)
EXTENDS Integers, Sequences, FiniteSets, TLC

(***************************************************************************)
(* Nullable column values.                                                 *)
(***************************************************************************)
NULL == [null |-> TRUE]
V(x) == [null |-> FALSE, v |-> x]
IsNull(c) == c.null

(***************************************************************************)
(* Characters and bytes.                                                   *)
(***************************************************************************)
Ch(s, i) == IF i >= 1 /\ i <= Len(s) THEN SubSeq(s, i, i) ELSE ""
Sub(s, i, j) == IF i >= 1 /\ j <= Len(s) THEN SubSeq(s, i, j) ELSE ""

\* The printable ASCII characters: codes 32 (space) to 95, and 97 to 126.
\* Code 96 cannot be written in a string of this module and is left out.
AsciiLow ==
  " !\"#$%&'()*+,-./0123456789:;<=>?@ABCDEFGHIJKLMNOPQRSTUVWXYZ[\\]^_"
AsciiHigh == "abcdefghijklmnopqrstuvwxyz{|}~"

\* The base64 alphabet of RFC 4648, value 0 first.
Base64Alphabet ==
  "ABCDEFGHIJKLMNOPQRSTUVWXYZabcdefghijklmnopqrstuvwxyz0123456789+/"

\* Position of the one-character string c in table, 0 when it is not there.
IndexOf(table, c) ==
  IF \E i \in 1..Len(table) : SubSeq(table, i, i) = c
  THEN CHOOSE i \in 1..Len(table) : SubSeq(table, i, i) = c
  ELSE 0

\* The byte of an ASCII character (the producer's UTF-8 encoding of it).
ByteOf(c) ==
  CASE c = "\t" -> 9
    [] c = "\n" -> 10
    [] c = "\r" -> 13
    [] IndexOf(AsciiLow, c) > 0 -> IndexOf(AsciiLow, c) + 31
    [] OTHER -> IndexOf(AsciiHigh, c) + 96

\* The concatenation of the strings f[lo], ..., f[hi].
RECURSIVE Concat(_, _, _)
Concat(f, lo, hi) ==
  IF lo > hi THEN ""
  ELSE IF lo = hi THEN f[lo]
  ELSE LET mid == (lo + hi) \div 2
       IN  Concat(f, lo, mid) \o Concat(f, mid + 1, hi)

\* The least element of a non-empty set of integers.
Least(S) == CHOOSE x \in S : \A y \in S : x <= y

\* The first position >= i of the character c in s, 0 when there is none.
FirstAt(s, i, c) ==
  LET P == {j \in i..Len(s) : SubSeq(s, j, j) = c}
  IN  IF P = {} THEN 0 ELSE Least(P)

Utf8Bytes(s) == [i \in 1..Len(s) |-> ByteOf(Ch(s, i))]

\* cast(<binary> as string): UTF-8 decoding.  A byte outside the ASCII
\* range has no character of its own here and decodes to "?", the
\* replacement character.
CharOf(b) ==
  CASE b = 9 -> "\t"
    [] b = 10 -> "\n"
    [] b = 13 -> "\r"
    [] b >= 32 /\ b <= 95 -> SubSeq(AsciiLow, b - 31, b - 31)
    [] b >= 97 /\ b <= 126 -> SubSeq(AsciiHigh, b - 96, b - 96)
    [] OTHER -> "?"

DecodeUtf8(bytes) ==
  Concat([i \in 1..Len(bytes) |-> CharOf(bytes[i])], 1, Len(bytes))

CastToString(col) == IF IsNull(col) THEN NULL ELSE V(DecodeUtf8(col.v))

(***************************************************************************)
(* base64 (the producer's side) and unbase64 (the job's side).             *)
(***************************************************************************)
B64Char(n) == SubSeq(Base64Alphabet, n + 1, n + 1)

\* Three bytes give four characters; a last group of one or two bytes is
\* padded with '='.
Base64Encode(bytes) ==
  LET n == Len(bytes)
      At(i) == IF i <= n THEN bytes[i] ELSE 0
      CharAt(k) ==
        LET j == (k - 1) \div 4
            r == (k - 1) % 4
            b1 == At(3 * j + 1)
            b2 == At(3 * j + 2)
            b3 == At(3 * j + 3)
        IN  CASE r = 0 -> B64Char(b1 \div 4)
              [] r = 1 -> B64Char((b1 % 4) * 16 + b2 \div 16)
              [] r = 2 -> IF 3 * j + 2 <= n
                          THEN B64Char((b2 % 16) * 4 + b3 \div 64) ELSE "="
              [] OTHER -> IF 3 * j + 3 <= n THEN B64Char(b3 % 64) ELSE "="
      m == 4 * ((n + 2) \div 3)
  IN  Concat([k \in 1..m |-> CharAt(k)], 1, m)

\* The 6-bit value of a character, -1 for a character outside the alphabet.
\* The decoder also accepts the URL-safe characters '-' and '_'.
Sextet(c) ==
  CASE c = "-" -> 62
    [] c = "_" -> 63
    [] OTHER -> IndexOf(Base64Alphabet, c) - 1

\* The sextets of s[lo..hi]: characters outside the alphabet are skipped.
RECURSIVE SextetsIn(_, _, _)
SextetsIn(s, lo, hi) ==
  IF lo > hi THEN <<>>
  ELSE IF lo = hi
       THEN IF Sextet(Ch(s, lo)) < 0 THEN <<>> ELSE <<Sextet(Ch(s, lo))>>
  ELSE LET mid == (lo + hi) \div 2
       IN  SextetsIn(s, lo, mid) \o SextetsIn(s, mid + 1, hi)

\* The sextets of the text up to its first '=': the padding character ends
\* the data.
Sextets(s) ==
  LET pad == FirstAt(s, 1, "=")
  IN  SextetsIn(s, 1, IF pad = 0 THEN Len(s) ELSE pad - 1)

\* Four sextets give three bytes; a last group of three gives two bytes, of
\* two gives one byte, and a single left-over sextet gives none.
BytesOfSextets(q) ==
  LET m == Len(q)
      n == 3 * (m \div 4)
             + (CASE m % 4 = 2 -> 1 [] m % 4 = 3 -> 2 [] OTHER -> 0)
      ByteAt(k) ==
        LET j == (k - 1) \div 3
            r == (k - 1) % 3
        IN  CASE r = 0 -> q[4 * j + 1] * 4 + q[4 * j + 2] \div 16
              [] r = 1 -> (q[4 * j + 2] % 16) * 16 + q[4 * j + 3] \div 4
              [] OTHER -> (q[4 * j + 3] % 4) * 64 + q[4 * j + 4]
  IN  [k \in 1..n |-> ByteAt(k)]

\* unbase64(col): a binary column, NULL for a NULL input.  Text that is not
\* base64 never raises: what can be decoded of it is decoded.
Unbase64(col) ==
  IF IsNull(col) THEN NULL ELSE V(BytesOfSextets(Sextets(col.v)))

(***************************************************************************)
(* JSON text -> JSON tree.  A node is [t, raw, ...]: raw is the node's     *)
(* text, s a string's value, b a boolean's, kv an object's members in      *)
(* order, xs an array's elements.                                          *)
(***************************************************************************)
Fail == [ok |-> FALSE, v |-> [t |-> "none"], next |-> 0]
Ok(v, next) == [ok |-> TRUE, v |-> v, next |-> next]

RECURSIVE SkipWs(_, _)
SkipWs(s, i) ==
  IF Ch(s, i) \in {" ", "\t", "\n", "\r"} THEN SkipWs(s, i + 1) ELSE i

\* The character an escape sequence \e stands for ("" for none; \uXXXX is
\* not modelled and no input of the model uses it).
Unescape(e) ==
  CASE e = "\"" -> "\""
    [] e = "\\" -> "\\"
    [] e = "/" -> "/"
    [] e = "n" -> "\n"
    [] e = "t" -> "\t"
    [] e = "r" -> "\r"
    [] OTHER -> ""

\* The string whose first character (after the opening quote) is at i:
\* it runs to the next quote that no backslash escapes.
RECURSIVE ScanString(_, _, _)
\* q is the place of the next quote, b of the next backslash (0: none).
ScanStringTo(s, i, acc, q, b) ==
  IF q = 0 THEN Fail
  ELSE IF b = 0 \/ b > q THEN Ok(acc \o SubSeq(s, i, q - 1), q + 1)
  ELSE IF Unescape(Ch(s, b + 1)) = "" THEN Fail
  ELSE ScanString(s, b + 2,
                  acc \o SubSeq(s, i, b - 1) \o Unescape(Ch(s, b + 1)))

ScanString(s, i, acc) ==
  ScanStringTo(s, i, acc, FirstAt(s, i, "\""), FirstAt(s, i, "\\"))

RECURSIVE ScanNumber(_, _)
ScanNumber(s, i) ==
  IF Ch(s, i) \in {"0", "1", "2", "3", "4", "5", "6", "7", "8", "9",
                   "-", "+", ".", "e", "E"}
  THEN ScanNumber(s, i + 1) ELSE i

RECURSIVE ParseValue(_, _)
RECURSIVE ParseMembers(_, _, _)
RECURSIVE ParseElements(_, _, _)

\* After a member of an object: e is at the first character after it.
MembersRest(s, e, acc) ==
  IF Ch(s, e) = "," THEN ParseMembers(s, SkipWs(s, e + 1), acc)
  ELSE IF Ch(s, e) = "}" THEN Ok(acc, e + 1)
  ELSE Fail

\* The member with the name key and the parsed value val joins acc.
MemberDone(s, key, val, acc) ==
  IF ~val.ok THEN Fail
  ELSE MembersRest(s, SkipWs(s, val.next),
                   Append(acc, [k |-> key, v |-> val.v]))

\* k is the scanned name of a member, c the place of the ':' after it.
MemberAfterKey(s, k, c, acc) ==
  IF Ch(s, c) # ":" THEN Fail
  ELSE MemberDone(s, k.v, ParseValue(s, SkipWs(s, c + 1)), acc)

MemberKey(s, k, acc) ==
  IF ~k.ok THEN Fail ELSE MemberAfterKey(s, k, SkipWs(s, k.next), acc)

\* Members of an object; j is at the opening quote of a name.
ParseMembers(s, j, acc) ==
  IF Ch(s, j) # "\"" THEN Fail
  ELSE MemberKey(s, ScanString(s, j + 1, ""), acc)

\* After an element of an array: e is at the first character after it.
ElementsRest(s, e, acc) ==
  IF Ch(s, e) = "," THEN ParseElements(s, SkipWs(s, e + 1), acc)
  ELSE IF Ch(s, e) = "]" THEN Ok(acc, e + 1)
  ELSE Fail

ElementDone(s, val, acc) ==
  IF ~val.ok THEN Fail
  ELSE ElementsRest(s, SkipWs(s, val.next), Append(acc, val.v))

\* Elements of an array; j is at the first character of an element.
ParseElements(s, j, acc) == ElementDone(s, ParseValue(s, j), acc)

\* The inside of an object / an array; j is after the opening bracket.
ObjectBody(s, j) ==
  IF Ch(s, j) = "}" THEN Ok(<<>>, j + 1) ELSE ParseMembers(s, j, <<>>)

ArrayBody(s, j) ==
  IF Ch(s, j) = "]" THEN Ok(<<>>, j + 1) ELSE ParseElements(s, j, <<>>)

\* The node of the text s[i .. r.next - 1], r being what was parsed of it.
ObjectNode(s, i, r) ==
  IF r.ok
  THEN Ok([t |-> "obj", raw |-> SubSeq(s, i, r.next - 1), kv |-> r.v], r.next)
  ELSE Fail

ArrayNode(s, i, r) ==
  IF r.ok
  THEN Ok([t |-> "arr", raw |-> SubSeq(s, i, r.next - 1), xs |-> r.v], r.next)
  ELSE Fail

StringNode(s, i, r) ==
  IF r.ok
  THEN Ok([t |-> "str", raw |-> SubSeq(s, i, r.next - 1), s |-> r.v], r.next)
  ELSE Fail

NumberNode(s, i, n) == Ok([t |-> "num", raw |-> SubSeq(s, i, n - 1)], n)

ParseValue(s, i) ==
  CASE Ch(s, i) = "{" -> ObjectNode(s, i, ObjectBody(s, SkipWs(s, i + 1)))
    [] Ch(s, i) = "[" -> ArrayNode(s, i, ArrayBody(s, SkipWs(s, i + 1)))
    [] Ch(s, i) = "\"" -> StringNode(s, i, ScanString(s, i + 1, ""))
    [] Ch(s, i) = "t" ->
         IF Sub(s, i, i + 3) = "true"
         THEN Ok([t |-> "bool", raw |-> "true", b |-> TRUE], i + 4) ELSE Fail
    [] Ch(s, i) = "f" ->
         IF Sub(s, i, i + 4) = "false"
         THEN Ok([t |-> "bool", raw |-> "false", b |-> FALSE], i + 5) ELSE Fail
    [] Ch(s, i) = "n" ->
         IF Sub(s, i, i + 3) = "null"
         THEN Ok([t |-> "null", raw |-> "null"], i + 4) ELSE Fail
    [] Ch(s, i) \in {"0", "1", "2", "3", "4", "5", "6", "7", "8", "9", "-"} ->
         NumberNode(s, i, ScanNumber(s, i))
    [] OTHER -> Fail

(***************************************************************************)
(* Schemas (StructType declarations of the two scripts).                   *)
(***************************************************************************)
StringType == [k |-> "string"]
BooleanType == [k |-> "boolean"]
ArrayType(elementType) == [k |-> "array", of |-> elementType]
StructField(name, dataType) == [name |-> name, type |-> dataType]
StructType(fields) == [k |-> "struct", fields |-> fields]

FieldNames(schema) == {schema.fields[i].name : i \in DOMAIN schema.fields}

kafkaStediEventSchema ==
  StructType(<<StructField("customer", StringType),
               StructField("score", StringType),
               StructField("riskDate", StringType)>>)

kafkaRedisSchema ==
  StructType(<<StructField("key", StringType),
               StructField("value", StringType),
               StructField("expiredType", StringType),
               StructField("expiredValue", StringType),
               StructField("existType", StringType),
               StructField("ch", StringType),
               StructField("incr", BooleanType),
               StructField("zSetEntries",
                 ArrayType(StructType(<<StructField("element", StringType),
                                        StructField("score", StringType)>>)))>>)

customerSchema ==
  StructType(<<StructField("customerName", StringType),
               StructField("email", StringType),
               StructField("phone", StringType),
               StructField("birthDay", StringType)>>)

(***************************************************************************)
(* from_json(column, schema).  No parse option is passed by either script, *)
(* so the mode is the default one.                                         *)
(***************************************************************************)
\* Variant: from_json is given the option mode = FAILFAST.
FailFastMode == "FAILFAST"

JsonParseMode == "PERMISSIVE"

Bad == [ok |-> FALSE, v |-> NULL]
Good(v) == [ok |-> TRUE, v |-> v]

\* The JSON node as a value of the schema's type.  A JSON null is NULL for
\* every type; a string column takes a scalar's text and the raw text of an
\* object or array; a member the schema does not name is ignored, a field
\* no member names is NULL, and of two members with one name the last one
\* stays.  A value that does not fit its type makes the record malformed.
RECURSIVE Convert(_, _)
Convert(node, type) ==
  IF node.t = "null" THEN Good(NULL)
  ELSE CASE type.k = "string" ->
              Good(V(IF node.t = "str" THEN node.s ELSE node.raw))
         [] type.k = "boolean" ->
              IF node.t = "bool" THEN Good(V(node.b)) ELSE Bad
         [] type.k = "array" ->
              IF node.t # "arr" THEN Bad
              ELSE LET items == [i \in DOMAIN node.xs |->
                                   Convert(node.xs[i], type.of)]
                   IN  IF \E i \in DOMAIN items : ~items[i].ok THEN Bad
                       ELSE Good(V([i \in DOMAIN items |-> items[i].v]))
         [] OTHER ->
              IF node.t # "obj" THEN Bad
              ELSE LET Members(f) == {i \in DOMAIN node.kv : node.kv[i].k = f.name}
                       Last(S) == CHOOSE x \in S : \A y \in S : y <= x
                       Field(f) == IF Members(f) = {} THEN Good(NULL)
                                   ELSE Convert(node.kv[Last(Members(f))].v, f.type)
                       fields == [i \in DOMAIN type.fields |-> Field(type.fields[i])]
                       At(name) == CHOOSE i \in DOMAIN type.fields :
                                     type.fields[i].name = name
                   IN  IF \E i \in DOMAIN fields : ~fields[i].ok THEN Bad
                       ELSE Good(V([n \in FieldNames(type) |-> fields[At(n)].v]))

\* The JSON value the text starts with, after white space.
ParseJson(text) == ParseValue(text, SkipWs(text, 1))

\* The parsed text as a struct of the schema; only a JSON object is one.
Record(parsed, schema) ==
  IF ~parsed.ok \/ parsed.v.t # "obj" THEN Bad ELSE Convert(parsed.v, schema)

\* Whether text is a record from_json cannot parse with the schema.
Malformed(text, schema) == ~Record(ParseJson(text), schema).ok

\* from_json raises on a malformed record only in FAILFAST mode.
FromJsonRaises(col, schema) ==
  ~IsNull(col) /\ Malformed(col.v, schema) /\ JsonParseMode = "FAILFAST"

\* The struct of a converted record, NULL for a malformed one.
StructOf(record) == IF record.ok THEN record.v ELSE NULL

\* The struct column from_json gives: NULL for a NULL or malformed text.
from_json(col, schema) ==
  IF IsNull(col) THEN NULL ELSE StructOf(Record(ParseJson(col.v), schema))

\* select(col('value.*')): the struct's fields as columns, all NULL for a
\* NULL struct.
Star(struct, schema) ==
  IF IsNull(struct) THEN [n \in FieldNames(schema) |-> NULL] ELSE struct.v

AllNull(row) == \A n \in DOMAIN row : IsNull(row[n])

(***************************************************************************)
(* Job A, src/sparkpyeventskafkastreamtoconsole.py.  Each DataFrame or     *)
(* view is an operator on what the DataFrame before it holds for one Kafka *)
(* record, the first one on the record's binary value column.              *)
(***************************************************************************)
\* selectExpr("cast(value as string) value")
stediEventsStreamingDF(kafkaValue) == [value |-> CastToString(kafkaValue)]

\* withColumn('value', from_json(...)).select(col('value.*')), the view
\* CustomerRisk.
CustomerRisk(df) ==
  Star(from_json(df.value, kafkaStediEventSchema), kafkaStediEventSchema)

\* Variant: every column of the view is selected.
customerRiskAllColumns(view) == <<view>>

\* "select customer, score from CustomerRisk": one row for every record.
customerRiskStreamingDF(view) ==
  <<[customer |-> view.customer, score |-> view.score]>>

(***************************************************************************)
(* Job B, src/sparkpyrediskafkastreamtoconsole.py.                         *)
(***************************************************************************)
\* Variant: the session runs with spark.sql.ansi.enabled = true.
AnsiOn == TRUE

\* No spark.sql.ansi.enabled setting is made on the session.
AnsiEnabled == FALSE

\* selectExpr("cast(value as string) value")
redisServerStreamingDF(kafkaValue) == [value |-> CastToString(kafkaValue)]

\* withColumn("value", from_json(...)).select(col('value.*')), the view
\* RedisSortedSet.
RedisSortedSet(df) ==
  Star(from_json(df.value, kafkaRedisSchema), kafkaRedisSchema)

\* array[index] of SQL, counted from 0: NULL for a NULL array and for an
\* index past its end.
ElementAt(array, index) ==
  IF IsNull(array) THEN NULL
  ELSE IF index + 1 \in DOMAIN array.v THEN array.v[index + 1]
  ELSE NULL

\* An index past the end raises instead when ANSI mode is on.
ElementAtRaises(array, index) ==
  AnsiEnabled /\ ~IsNull(array) /\ index + 1 \notin DOMAIN array.v

\* struct.field of SQL: NULL for a NULL struct.
GetField(struct, name) == IF IsNull(struct) THEN NULL ELSE struct.v[name]

\* Variant: the statement takes the last entry of the array.
LastEntryIndex(array) ==
  IF IsNull(array) \/ array.v = <<>> THEN 0 ELSE Len(array.v) - 1

\* The index the SQL statement applies to zSetEntries.
EntryIndex(array) == 0

\* "select zSetEntries[0].element as encodedCustomer from RedisSortedSet"
zSetEntriesEncodedStreamingDF(view) ==
  [encodedCustomer |->
     GetField(ElementAt(view.zSetEntries, EntryIndex(view.zSetEntries)),
              "element")]

\* withColumn('customer', unbase64(encodedCustomer).cast('string'))
zSetEntriesDecodedStreamingDF(df) ==
  [encodedCustomer |-> df.encodedCustomer,
   customer |-> CastToString(Unbase64(df.encodedCustomer))]

\* withColumn('customer', from_json('customer', customerSchema))
\*   .select(col('customer.*')), the view CustomerRecords.
CustomerRecords(df) ==
  Star(from_json(df.customer, customerSchema), customerSchema)

\* Variant: the where clause tests the email alone.
EmailPresent(r) == ~IsNull(r.email)

\* "where email is not null and birthDay is not null"
RequiredFieldsPresent(r) == ~IsNull(r.email) /\ ~IsNull(r.birthDay)

\* "select email, birthDay from CustomerRecords where ...": no row or one.
emailAndBirthDayStreamingDF(view) ==
  IF RequiredFieldsPresent(view)
  THEN <<[email |-> view.email, birthDay |-> view.birthDay]>>
  ELSE <<>>

\* split(str, pattern) for a one-character pattern: the pieces of str
\* between the occurrences of the pattern, in order.
RECURSIVE SplitFrom(_, _, _)
SplitFrom(str, pattern, i) ==
  IF FirstAt(str, i, pattern) = 0 THEN <<SubSeq(str, i, Len(str))>>
  ELSE <<SubSeq(str, i, FirstAt(str, i, pattern) - 1)>>
         \o SplitFrom(str, pattern, FirstAt(str, i, pattern) + 1)

split(col, pattern) ==
  IF IsNull(col) THEN NULL ELSE V(SplitFrom(col.v, pattern, 1))

\* Column.getItem(n) on an array column, counted from 0.
getItem(array, n) ==
  IF IsNull(array) THEN NULL
  ELSE IF n + 1 \in DOMAIN array.v THEN V(array.v[n + 1])
  ELSE NULL

\* Variant: the item after the first '-' is taken.
birthMonth(birthDay) == getItem(split(birthDay, "-"), 1)

\* The birth year of a birthDay column: split(birthDay, "-").getItem(0).
birthYear(birthDay) == getItem(split(birthDay, "-"), 0)

\* withColumn('birthYear', split(birthDay, "-").getItem(0))
emailAndBirthDayWithBirthYear(rows) ==
  [i \in DOMAIN rows |->
     [email |-> rows[i].email, birthDay |-> rows[i].birthDay,
      birthYear |-> birthYear(rows[i].birthDay)]]

\* select(col('email'), col('birthYear'))
emailAndBirthYearStreamingDF(rows) ==
  [i \in DOMAIN rows |->
     [email |-> rows[i].email, birthYear |-> rows[i].birthYear]]

\* Whether an expression of the job raises on the record, which fails the
\* micro-batch and with it the query.
JobARaises(df) == FromJsonRaises(df.value, kafkaStediEventSchema)

JobBRaises(df, view, decoded) ==
  \/ FromJsonRaises(df.value, kafkaRedisSchema)
  \/ ElementAtRaises(view.zSetEntries, EntryIndex(view.zSetEntries))
  \/ FromJsonRaises(decoded.customer, customerSchema)

(***************************************************************************)
(* The messages the producers put on the two topics.  A message is         *)
(* described by the members its JSON text is written from, so that what a  *)
(* job makes of the text can be compared with what went into it.           *)
(*   member:   [name, kind, text]; kind "string" is written quoted, kind   *)
(*             "raw" as it stands (a number, true, false, null)            *)
(*   cut > 0:  only the first cut characters of the text are sent          *)
(***************************************************************************)
Str(name, text) == [name |-> name, kind |-> "string", text |-> text]
Raw(name, text) == [name |-> name, kind |-> "raw", text |-> text]

Quote(text) == "\"" \o text \o "\""

RECURSIVE JoinFrom(_, _, _)
JoinFrom(texts, sep, i) ==
  IF i > Len(texts) THEN ""
  ELSE IF i = Len(texts) THEN texts[i]
  ELSE texts[i] \o sep \o JoinFrom(texts, sep, i + 1)

JsonObject(members) ==
  "{" \o JoinFrom([i \in DOMAIN members |->
                     Quote(members[i].name) \o ":"
                       \o (IF members[i].kind = "string"
                           THEN Quote(members[i].text)
                           ELSE members[i].text)], ",", 1)
      \o "}"

Cut(text, cut) == IF cut > 0 THEN SubSeq(text, 1, cut) ELSE text

\* The value a member list gives a name: NULL when no member has the name
\* or its value is the JSON null.
MemberValue(members, name) ==
  LET S == {i \in DOMAIN members : members[i].name = name}
      last == CHOOSE x \in S : \A y \in S : y <= x
  IN  IF S = {} THEN NULL
      ELSE IF members[last].kind = "raw" /\ members[last].text = "null"
      THEN NULL
      ELSE V(members[last].text)

\* ---- topic stedi-events ----
StediMessages ==
  << [members |-> <<Str("customer", "Spencer.Davis@test.com"),
                    Raw("score", "8.0"),
                    Str("riskDate", "2020-09-14T07:54:06.417Z")>>,
      cut |-> 0],
     [members |-> <<Str("customer", "sam.test@test.com"),
                    Str("score", "-1.4"),
                    Str("riskDate", "2020-09-15T01:00:00.000Z")>>,
      cut |-> 0],
     \* the text ends inside the object
     [members |-> <<Str("customer", "sam.test@test.com"),
                    Str("score", "-1.4"),
                    Str("riskDate", "2020-09-15T01:00:00.000Z")>>,
      cut |-> 40],
     \* no score
     [members |-> <<Str("customer", "sam.test@test.com"),
                    Str("riskDate", "2020-09-15T01:00:00.000Z")>>,
      cut |-> 0] >>

StediText(m) == Cut(JsonObject(StediMessages[m].members), StediMessages[m].cut)

\* ---- topic redis-server ----
SamCustomer ==
  <<Str("customerName", "Sam Test"), Str("email", "sam.test@test.com"),
    Str("phone", "8015551212"), Str("birthDay", "2001-01-03")>>

GailCustomer ==
  <<Str("customerName", "Gail Spencer"), Str("email", "Gail.Spencer@test.com"),
    Str("phone", "8015551213"), Str("birthDay", "1963-04-12")>>

NoBirthDayCustomer ==
  <<Str("customerName", "Craig Lincoln"), Str("email", "Craig.Lincoln@test.com"),
    Str("phone", "8015551214")>>

NullEmailCustomer ==
  <<Str("customerName", "Edward Wu"), Raw("email", "null"),
    Str("phone", "8015551215"), Str("birthDay", "1961-07-30")>>

Encoded(text) == Base64Encode(Utf8Bytes(text))

\* An entry of zSetEntries.  form "customer": element is the base64 text of
\* the customer's JSON; "brokenJson": of a JSON text that ends inside the
\* object; "notBase64": element is no base64 text at all.
CustomerEntry(customer, score) ==
  [form |-> "customer", customer |-> customer,
   element |-> Encoded(JsonObject(customer)), score |-> score]

BrokenJsonEntry(customer, cut, score) ==
  [form |-> "brokenJson", customer |-> customer,
   element |-> Encoded(Cut(JsonObject(customer), cut)), score |-> score]

NotBase64Entry(text, score) ==
  [form |-> "notBase64", customer |-> <<>>, element |-> text, score |-> score]

EntryText(scoreName, e) ==
  JsonObject(<<Str("element", e.element), Raw(scoreName, e.score)>>)

EntriesText(scoreName, entries) ==
  "[" \o JoinFrom([i \in DOMAIN entries |-> EntryText(scoreName, entries[i])],
                  ",", 1) \o "]"

\* envelope: the members before zSetEntries; hasEntries: whether the member
\* zSetEntries is written; twin: whether a second member "zsetEntries"
\* with the same entries follows, as the Redis source connector writes it.
RedisMessages ==
  << \* 1: the message of the script's comment
     [envelope |-> <<Str("key", "Q3VzdG9tZXI="), Str("existType", "NONE"),
                     Raw("Ch", "false"), Raw("Incr", "false")>>,
      hasEntries |-> TRUE, twin |-> TRUE, cut |-> 0,
      entries |-> <<CustomerEntry(SamCustomer, "0.0")>>],
     \* 2: the same first element under another envelope, another score and
     \*    with a second entry
     [envelope |-> <<Str("key", "U29ydGVkU2V0"), Str("value", "dGVzdA=="),
                     Str("expiredType", "SECOND"), Raw("expiredValue", "60"),
                     Str("existType", "XX"), Raw("ch", "true"),
                     Raw("incr", "true")>>,
      hasEntries |-> TRUE, twin |-> FALSE, cut |-> 0,
      entries |-> <<CustomerEntry(SamCustomer, "7.5"),
                    CustomerEntry(GailCustomer, "1.0")>>],
     \* 3: another customer
     [envelope |-> <<Str("key", "Q3VzdG9tZXI="), Str("existType", "NONE"),
                     Raw("ch", "false"), Raw("incr", "false")>>,
      hasEntries |-> TRUE, twin |-> FALSE, cut |-> 0,
      entries |-> <<CustomerEntry(GailCustomer, "0.0")>>],
     \* 4: zSetEntries is empty
     [envelope |-> <<Str("key", "Q3VzdG9tZXI="), Str("existType", "NONE"),
                     Raw("ch", "false"), Raw("incr", "false")>>,
      hasEntries |-> TRUE, twin |-> FALSE, cut |-> 0,
      entries |-> <<>>],
     \* 5: zSetEntries is absent
     [envelope |-> <<Str("key", "dGVzdGtleQ=="), Str("value", "dGVzdA=="),
                     Str("existType", "NONE"),
                     Raw("ch", "false"), Raw("incr", "false")>>,
      hasEntries |-> FALSE, twin |-> FALSE, cut |-> 0,
      entries |-> <<>>],
     \* 6: the outer text ends inside the object
     [envelope |-> <<Str("key", "Q3VzdG9tZXI="), Str("existType", "NONE"),
                     Raw("ch", "false"), Raw("incr", "false")>>,
      hasEntries |-> TRUE, twin |-> FALSE, cut |-> 120,
      entries |-> <<CustomerEntry(SamCustomer, "0.0")>>],
     \* 7: the element is not base64
     [envelope |-> <<Str("key", "Q3VzdG9tZXI="), Str("existType", "NONE"),
                     Raw("ch", "false"), Raw("incr", "false")>>,
      hasEntries |-> TRUE, twin |-> FALSE, cut |-> 0,
      entries |-> <<NotBase64Entry("%%% not base64 %%%", "0.0")>>],
     \* 8: the inner text ends inside the object
     [envelope |-> <<Str("key", "Q3VzdG9tZXI="), Str("existType", "NONE"),
                     Raw("ch", "false"), Raw("incr", "false")>>,
      hasEntries |-> TRUE, twin |-> FALSE, cut |-> 0,
      entries |-> <<BrokenJsonEntry(SamCustomer, 50, "0.0")>>],
     \* 9: the customer has no birthDay
     [envelope |-> <<Str("key", "Q3VzdG9tZXI="), Str("existType", "NONE"),
                     Raw("ch", "false"), Raw("incr", "false")>>,
      hasEntries |-> TRUE, twin |-> FALSE, cut |-> 0,
      entries |-> <<CustomerEntry(NoBirthDayCustomer, "0.0")>>],
     \* 10: the customer's email is null
     [envelope |-> <<Str("key", "Q3VzdG9tZXI="), Str("existType", "NONE"),
                     Raw("ch", "false"), Raw("incr", "false")>>,
      hasEntries |-> TRUE, twin |-> FALSE, cut |-> 0,
      entries |-> <<CustomerEntry(NullEmailCustomer, "0.0")>>] >>

RedisText(m) ==
  LET d == RedisMessages[m]
  IN  Cut(JsonObject(d.envelope
            \o (IF d.hasEntries
                THEN <<Raw("zSetEntries", EntriesText("Score", d.entries))>>
                ELSE <<>>)
            \o (IF d.twin
                THEN <<Raw("zsetEntries", EntriesText("score", d.entries))>>
                ELSE <<>>)),
          d.cut)

\* The binary value column of the Kafka record that carries the text.
KafkaValue(text) == V(Utf8Bytes(text))

(***************************************************************************)
(* What each job makes of each message of its topic.                       *)
(***************************************************************************)
\* Job A, DataFrame by DataFrame.
StediEvents ==
  [m \in DOMAIN StediMessages |->
     stediEventsStreamingDF(KafkaValue(StediText(m)))]

StediCustomerRisk ==
  [m \in DOMAIN StediMessages |-> CustomerRisk(StediEvents[m])]

StediRows ==
  [m \in DOMAIN StediMessages |->
     customerRiskStreamingDF(StediCustomerRisk[m])]

StediRaises == [m \in DOMAIN StediMessages |-> JobARaises(StediEvents[m])]

\* Job B, DataFrame by DataFrame.
RedisServer ==
  [m \in DOMAIN RedisMessages |->
     redisServerStreamingDF(KafkaValue(RedisText(m)))]

RedisSortedSets ==
  [m \in DOMAIN RedisMessages |-> RedisSortedSet(RedisServer[m])]

RedisEncoded ==
  [m \in DOMAIN RedisMessages |->
     zSetEntriesEncodedStreamingDF(RedisSortedSets[m])]

RedisEncodedCustomer ==
  [m \in DOMAIN RedisMessages |-> RedisEncoded[m].encodedCustomer]

RedisDecoded ==
  [m \in DOMAIN RedisMessages |->
     zSetEntriesDecodedStreamingDF(RedisEncoded[m])]

RedisCustomerRecords ==
  [m \in DOMAIN RedisMessages |-> CustomerRecords(RedisDecoded[m])]

RedisRows ==
  [m \in DOMAIN RedisMessages |->
     emailAndBirthYearStreamingDF(
       emailAndBirthDayWithBirthYear(
         emailAndBirthDayStreamingDF(RedisCustomerRecords[m])))]

RedisRaises ==
  [m \in DOMAIN RedisMessages |->
     JobBRaises(RedisServer[m], RedisSortedSets[m], RedisDecoded[m])]

Jobs == {"A", "B"}
Messages(j) == IF j = "A" THEN DOMAIN StediMessages ELSE DOMAIN RedisMessages
Rows(j, m) == IF j = "A" THEN StediRows[m] ELSE RedisRows[m]
Raises(j, m) == IF j = "A" THEN StediRaises[m] ELSE RedisRaises[m]

(***************************************************************************)
(* The running query.  One of the two scripts runs; its topic has the      *)
(* partitions Partitions, and a message's offset is its place in its       *)
(* partition, counted from 0.                                              *)
(***************************************************************************)
\* Most messages the topic gets in a run of the model.
MaxLog == 2

Partitions == {0, 1}

VARIABLES
  job,        \* the script that runs: "A" or "B"
  log,        \* log[p]: the messages of partition p, oldest first
  phase,      \* "notStarted", "idle", "planned", "written" or "failed"
  committed,  \* committed[p]: the offset the query reads partition p from next
  planned,    \* planned[p]: the offset the current micro-batch ends before
  batchId,    \* the number of the current micro-batch
  sink,       \* the rows the console sink was given, first to last; src
              \* (partition, offset of the message) is for the properties
  runs,       \* history: runs[p][o + 1] is the number of micro-batches that
              \* ran the message at offset o of partition p
  backlog     \* history: backlog[p] is the length of partition p when the
              \* query started

vars == <<job, log, phase, committed, planned, batchId, sink, runs, backlog>>

TotalLog == LET RECURSIVE Sum(_)
                Sum(S) == IF S = {} THEN 0
                          ELSE LET p == CHOOSE x \in S : TRUE
                               IN  Len(log[p]) + Sum(S \ {p})
            IN  Sum(Partitions)

Init ==
  /\ job \in Jobs
  /\ log = [p \in Partitions |-> <<>>]
  /\ phase = "notStarted"
  /\ committed = [p \in Partitions |-> 0]
  /\ planned = [p \in Partitions |-> 0]
  /\ batchId = 0
  /\ sink = <<>>
  /\ runs = [p \in Partitions |-> <<>>]
  /\ backlog = [p \in Partitions |-> 0]

\* A producer appends a message to a partition of the topic, before the
\* query starts or while it runs.
Produce(p, m) ==
  /\ TotalLog < MaxLog
  /\ log' = [log EXCEPT ![p] = Append(@, m)]
  /\ runs' = [runs EXCEPT ![p] = Append(@, 0)]
  /\ UNCHANGED <<job, phase, committed, planned, batchId, sink, backlog>>

\* Variant: option('startingOffsets', 'latest').
LatestOffsets(topic) == [p \in Partitions |-> Len(topic[p])]

\* option('startingOffsets', 'earliest'): a new query reads every partition
\* from its first offset, whatever the topic holds already.
StartingOffsets(topic) == [p \in Partitions |-> 0]

\* readStream...load() and writeStream...start(): the query starts.
Start ==
  /\ phase = "notStarted"
  /\ phase' = "idle"
  /\ committed' = StartingOffsets(log)
  /\ planned' = StartingOffsets(log)
  /\ backlog' = [p \in Partitions |-> Len(log[p])]
  /\ UNCHANGED <<job, log, batchId, sink, runs>>

\* The next micro-batch is planned once a partition holds messages past
\* the read position: it takes all of them, of every partition.
PlanBatch ==
  /\ phase = "idle"
  /\ \E p \in Partitions : Len(log[p]) > committed[p]
  /\ planned' = [p \in Partitions |-> Len(log[p])]
  /\ phase' = "planned"
  /\ UNCHANGED <<job, log, committed, batchId, sink, runs, backlog>>

\* Variant: the offsets are taken newest first.
BatchRangeDescending(from, to) == [i \in 1..(to - from) |-> to - i]

\* The offsets a micro-batch reads of one partition, in reading order.
BatchRange(from, to) == [i \in 1..(to - from) |-> from + i - 1]

\* The sink rows of the message at offset o of partition p.
SinkRows(p, o) ==
  LET rows == Rows(job, log[p][o + 1])
  IN  [i \in DOMAIN rows |->
         [batch |-> batchId, row |-> rows[i],
          src |-> [partition |-> p, offset |-> o]]]

RECURSIVE Flatten(_)
Flatten(seqs) ==
  IF seqs = <<>> THEN <<>> ELSE Head(seqs) \o Flatten(Tail(seqs))

\* The rows of the current micro-batch of one partition: a row keeps the
\* place of its message.
PartitionRows(p) ==
  LET range == BatchRange(committed[p], planned[p])
  IN  Flatten([i \in DOMAIN range |-> SinkRows(p, range[i])])

\* The rows of the current micro-batch, the partitions taken in the order
\* the sequence order gives.
BatchRows(order) == Flatten([i \in DOMAIN order |-> PartitionRows(order[i])])

\* The orders the partitions of a batch may come in.
PartitionOrders ==
  {order \in [1..Cardinality(Partitions) -> Partitions] :
     \A p \in Partitions : \E i \in DOMAIN order : order[i] = p}

\* Whether an expression raises on a message of the current micro-batch.
BatchRaises ==
  \E p \in Partitions : \E o \in committed[p]..(planned[p] - 1) :
    Raises(job, log[p][o + 1])

\* Variant: the sink shows the rows of the last micro-batch only.
ReplaceConsole(console, rows) == rows

\* Variant: a row equal to one the sink has, or to an earlier row of the
\* batch, is dropped (dropDuplicates).
RECURSIVE AppendDistinct(_, _)
AppendDistinct(console, rows) ==
  IF rows = <<>> THEN console
  ELSE IF \E i \in DOMAIN console : console[i].row = Head(rows).row
       THEN AppendDistinct(console, Tail(rows))
       ELSE AppendDistinct(Append(console, Head(rows)), Tail(rows))

\* outputMode('append').format('console'): the sink is given the rows of
\* the micro-batch after the rows it has.
AppendToConsole(console, rows) == console \o rows

\* The micro-batch runs: the job's expressions are applied to the batch's
\* messages and the sink is given the rows; an expression that raises
\* fails the query, which ends awaitTermination().
RunBatch ==
  /\ phase = "planned"
  /\ IF BatchRaises
     THEN /\ phase' = "failed"
          /\ UNCHANGED <<sink, runs>>
     ELSE /\ phase' = "written"
          /\ \E order \in PartitionOrders :
               sink' = AppendToConsole(sink, BatchRows(order))
          /\ runs' = [p \in Partitions |->
                        [i \in DOMAIN runs[p] |->
                           IF i > committed[p] /\ i <= planned[p]
                           THEN runs[p][i] + 1 ELSE runs[p][i]]]
  /\ UNCHANGED <<job, log, committed, planned, batchId, backlog>>

\* Whether the query may move its read position to the batch's end.
MayCommit == phase = "written"

\* The micro-batch is committed: the read position moves to its end.
Commit ==
  /\ MayCommit
  /\ phase \in {"planned", "written"}
  /\ committed' = planned
  /\ batchId' = batchId + 1
  /\ phase' = "idle"
  /\ UNCHANGED <<job, log, planned, sink, runs, backlog>>

Next ==
  \/ \E p \in Partitions : \E m \in Messages(job) : Produce(p, m)
  \/ Start
  \/ PlanBatch
  \/ RunBatch
  \/ Commit

Spec == Init /\ [][Next]_vars

\* The query's scheduler runs micro-batches for as long as the process
\* lives (awaitTermination() blocks on it).
FairSpec ==
  Spec /\ WF_vars(Start) /\ WF_vars(PlanBatch) /\ WF_vars(RunBatch)
       /\ WF_vars(Commit)

(***************************************************************************)
(* Vocabulary of the properties.                                           *)
(***************************************************************************)
\* The offsets the topic holds, as <<partition, offset>>.
Offsets == {<<p, o>> : p \in Partitions, o \in 0..(MaxLog - 1)}
OnTopic(x) == x[2] < Len(log[x[1]])
MessageAt(x) == log[x[1]][x[2] + 1]
RunsOf(x) == runs[x[1]][x[2] + 1]
Ran(x) == OnTopic(x) /\ RunsOf(x) > 0

\* The rows the sink holds of the message at x, first to last.
RowsFrom(x) ==
  LET FromX(e) == e.src = [partition |-> x[1], offset |-> x[2]]
      found == SelectSeq(sink, FromX)
  IN  [i \in DOMAIN found |-> found[i].row]

\* What went into a message, read off its description.
FirstEntry(d) ==
  IF d.hasEntries /\ d.entries # <<>> THEN V(d.entries[1]) ELSE NULL

\* The message is a well-formed envelope whose first element is the base64
\* text of a well-formed customer JSON.
CarriesCustomer(d) ==
  d.cut = 0 /\ ~IsNull(FirstEntry(d)) /\ FirstEntry(d).v.form = "customer"

CustomerOf(d) == FirstEntry(d).v.customer

CustomerAsRecord(c) ==
  [n \in {"customerName", "email", "phone", "birthDay"} |-> MemberValue(c, n)]

HasEmailAndBirthDay(c) ==
  ~IsNull(MemberValue(c, "email")) /\ ~IsNull(MemberValue(c, "birthDay"))

\* The text before the first occurrence of the character c, the whole text
\* when c does not occur.
BeforeFirst(text, c) ==
  IF \E i \in 1..Len(text) : SubSeq(text, i, i) = c
  THEN LET i == CHOOSE i \in 1..Len(text) :
                  /\ SubSeq(text, i, i) = c
                  /\ \A j \in 1..(i - 1) : SubSeq(text, j, j) # c
       IN  SubSeq(text, 1, i - 1)
  ELSE text

\* The payload fails schema parsing: the outer text is cut, the first
\* element is not base64, or the inner text is cut.
FailsParsing(j, m) ==
  IF j = "A" THEN StediMessages[m].cut > 0
  ELSE LET d == RedisMessages[m]
       IN  \/ d.cut > 0
           \/ /\ ~IsNull(FirstEntry(d))
              /\ FirstEntry(d).v.form \in {"brokenJson", "notBase64"}

\* The rows a job owes a message, read off the message's description.
OwedRows(j, m) ==
  IF j = "A"
  THEN LET d == StediMessages[m]
       IN  IF d.cut > 0 THEN <<[customer |-> NULL, score |-> NULL]>>
           ELSE <<[customer |-> MemberValue(d.members, "customer"),
                   score |-> MemberValue(d.members, "score")]>>
  ELSE LET d == RedisMessages[m]
       IN  IF CarriesCustomer(d) /\ HasEmailAndBirthDay(CustomerOf(d))
           THEN <<[email |-> MemberValue(CustomerOf(d), "email"),
                   birthYear |->
                     V(BeforeFirst(MemberValue(CustomerOf(d), "birthDay").v,
                                   "-"))]>>
           ELSE <<>>

IsPrefix(s, t) == Len(s) <= Len(t) /\ SubSeq(t, 1, Len(s)) = s

(***************************************************************************)
(* Properties.                                                             *)
(***************************************************************************)
SinkMessage(i) == log[sink[i].src.partition][sink[i].src.offset + 1]

\* C1: Job B: every row the console sink was given has a non-null email and
\* comes from a message whose decoded customer record (the view
\* CustomerRecords) has email and birthDay non-null; a message whose
\* customer lacks email or birthDay has no row in the sink.
C1_RowsHaveEmailAndBirthDay ==
  job = "B" =>
    /\ \A i \in DOMAIN sink :
         /\ ~IsNull(sink[i].row.email)
         /\ ~IsNull(RedisCustomerRecords[SinkMessage(i)].email)
         /\ ~IsNull(RedisCustomerRecords[SinkMessage(i)].birthDay)
    /\ \A x \in Offsets :
         LET d == RedisMessages[MessageAt(x)]
         IN  (/\ OnTopic(x)
              /\ CarriesCustomer(d)
              /\ ~HasEmailAndBirthDay(CustomerOf(d)))
             => RowsFrom(x) = <<>>

\* A message with email and birthDay has its row in the sink, and a
\* message whose customer lacks one of them was run and has none.
C1_Witness ==
  /\ job = "B"
  /\ sink # <<>>
  /\ \E x \in Offsets :
       /\ Ran(x)
       /\ CarriesCustomer(RedisMessages[MessageAt(x)])
       /\ ~HasEmailAndBirthDay(CustomerOf(RedisMessages[MessageAt(x)]))
       /\ RowsFrom(x) = <<>>

\* C2: Job B: for a message whose first element is the base64 text of a
\* customer JSON with email and birthDay, the view CustomerRecords holds the
\* customer as it was written, and every run of the message gives the sink
\* exactly one row: the email unchanged, and as birthYear the text of
\* birthDay before its first '-'.
C2_CustomerRoundTrip ==
  job = "B" =>
    \A x \in Offsets :
      LET d == RedisMessages[MessageAt(x)]
          c == CustomerOf(d)
      IN  (OnTopic(x) /\ CarriesCustomer(d) /\ HasEmailAndBirthDay(c))
          => /\ RedisCustomerRecords[MessageAt(x)] = CustomerAsRecord(c)
             /\ Len(RowsFrom(x)) = RunsOf(x)
             /\ \A i \in DOMAIN RowsFrom(x) :
                  RowsFrom(x)[i] =
                    [email |-> MemberValue(c, "email"),
                     birthYear |->
                       V(BeforeFirst(MemberValue(c, "birthDay").v, "-"))]

\* The message of the script's comment was run and the sink has its row.
C2_Witness ==
  /\ job = "B"
  /\ \E x \in Offsets :
       /\ Ran(x)
       /\ MessageAt(x) = 1
       /\ RowsFrom(x) = <<[email |-> V("sam.test@test.com"),
                           birthYear |-> V("2001")]>>

\* C3: Job A: for a message that is a well-formed envelope with customer
\* and score, every run of the message gives the sink exactly one row, whose
\* columns are customer and score and nothing else, with the values that
\* were written.
C3_CustomerAndScorePassThrough ==
  job = "A" =>
    \A x \in Offsets :
      LET d == StediMessages[MessageAt(x)]
      IN  (/\ OnTopic(x)
           /\ d.cut = 0
           /\ ~IsNull(MemberValue(d.members, "customer"))
           /\ ~IsNull(MemberValue(d.members, "score")))
          => /\ Len(RowsFrom(x)) = RunsOf(x)
             /\ \A i \in DOMAIN RowsFrom(x) :
                  /\ DOMAIN RowsFrom(x)[i] = {"customer", "score"}
                  /\ RowsFrom(x)[i].customer = MemberValue(d.members, "customer")
                  /\ RowsFrom(x)[i].score = MemberValue(d.members, "score")

C3_Witness ==
  /\ job = "A"
  /\ \E x \in Offsets :
       /\ Ran(x)
       /\ MessageAt(x) = 1
       /\ RowsFrom(x) = <<[customer |-> V("Spencer.Davis@test.com"),
                           score |-> V("8.0")]>>

\* C4: a payload that fails schema parsing (outer text cut, first element
\* not base64, inner text cut) never fails the query: its derived record is
\* all NULL, Job B gives the sink no row for it, Job A one row with NULL
\* customer and NULL score, and the messages run besides it, those after
\* it among them, have the rows owed to them.
C4_MalformedPayloadGivesNulls ==
  /\ phase # "failed"
  /\ \A x \in Offsets :
       (Ran(x) /\ FailsParsing(job, MessageAt(x)))
       => /\ job = "B" => /\ AllNull(RedisCustomerRecords[MessageAt(x)])
                          /\ RowsFrom(x) = <<>>
          /\ job = "A" => /\ AllNull(StediCustomerRisk[MessageAt(x)])
                          /\ RowsFrom(x) = <<[customer |-> NULL, score |-> NULL]>>
          /\ \A y \in Offsets :
               Ran(y) => RowsFrom(y) = OwedRows(job, MessageAt(y))

\* A malformed message was run, and a message after it in its partition
\* was run in a later micro-batch and has its row in the sink.
C4_Witness ==
  \E x \in Offsets : \E y \in Offsets :
    /\ Ran(x) /\ FailsParsing(job, MessageAt(x))
    /\ Ran(y) /\ ~FailsParsing(job, MessageAt(y))
    /\ y[1] = x[1] /\ y[2] > x[2]
    /\ RowsFrom(y) # <<>>
    /\ \E i \in DOMAIN sink :
         /\ sink[i].src = [partition |-> y[1], offset |-> y[2]]
         /\ sink[i].batch > 0

\* C5: Job B: for a well-formed envelope whose zSetEntries is empty or
\* absent, zSetEntries[0].element is NULL, taking it does not fail the
\* query, and the sink has no row for the message.
C5_NoEntriesNoRow ==
  job = "B" =>
    \A x \in Offsets :
      LET d == RedisMessages[MessageAt(x)]
      IN  (OnTopic(x) /\ d.cut = 0 /\ IsNull(FirstEntry(d)))
          => /\ IsNull(RedisEncodedCustomer[MessageAt(x)])
             /\ RowsFrom(x) = <<>>
             /\ (phase # "notStarted" /\ x[2] < planned[x[1]])
                  => phase # "failed"

\* A message with an empty zSetEntries and one without zSetEntries were run.
C5_Witness ==
  /\ job = "B"
  /\ \E x \in Offsets : Ran(x) /\ MessageAt(x) = 4
  /\ \E x \in Offsets : Ran(x) /\ MessageAt(x) = 5

\* C6: no deduplication: the sink has, for every message on the topic, as
\* many rows as the message was run times the rows owed to it; a message
\* that is on the topic twice and passes the filters has two rows.
C6_OneRowPerRun ==
  \A x \in Offsets :
    OnTopic(x) =>
      Len(RowsFrom(x)) = RunsOf(x) * Len(OwedRows(job, MessageAt(x)))

\* The same message is at two offsets, both were run, and the sink has a
\* row of each.
C6_Witness ==
  \E x \in Offsets : \E y \in Offsets :
    /\ x # y
    /\ Ran(x) /\ Ran(y)
    /\ MessageAt(x) = MessageAt(y)
    /\ RowsFrom(x) # <<>>
    /\ RowsFrom(y) = RowsFrom(x)

\* C7: append-only sink: in every step the rows the sink had are a prefix
\* of the rows it has after the step.
C7_SinkOnlyGrows == [][IsPrefix(sink, sink')]_vars

\* The sink has rows of two micro-batches.
C7_Witness ==
  \E i \in DOMAIN sink : \E j \in DOMAIN sink : sink[i].batch < sink[j].batch

\* The read position of a partition is past a message only if the message
\* was run and the rows owed to it are in the sink.
ReadPositionBehindSink ==
  /\ \A p \in Partitions : committed[p] <= Len(log[p])
  /\ \A x \in Offsets :
       (OnTopic(x) /\ x[2] < committed[x[1]])
       => /\ Ran(x)
          /\ RowsFrom(x) = OwedRows(job, MessageAt(x))

\* C8: the query reads from the earliest offset: every message on the
\* topic, those appended before the query started among them, is eventually
\* run in a micro-batch and its rows given to the sink, and the read
\* position moves past a message only after that.  A topic only grows, so
\* "every message is eventually run" is stated as: again and again, all the
\* messages the topic holds have been run and have their rows in the sink.
C8_EveryMessageReachesTheSink ==
  /\ []ReadPositionBehindSink
  /\ []<>(\A x \in Offsets :
            OnTopic(x) => (Ran(x) /\ RowsFrom(x) = OwedRows(job, MessageAt(x))))

\* The read position of a partition is past a message that was on the
\* topic before the query started and past one appended after.
C8_Witness ==
  \E p \in Partitions :
    /\ backlog[p] >= 1
    /\ committed[p] > backlog[p]
    /\ sink # <<>>

\* C9: order within a partition: of two rows whose messages are in one
\* partition, the row of the earlier message is earlier in the sink.
C9_PartitionOrderKept ==
  \A i \in DOMAIN sink : \A j \in DOMAIN sink :
    (/\ sink[i].src.partition = sink[j].src.partition
     /\ sink[i].src.offset < sink[j].src.offset)
    => i < j

\* Two messages of one partition were run in one micro-batch and both
\* have a row in the sink.
C9_Witness ==
  \E i \in DOMAIN sink : \E j \in DOMAIN sink :
    /\ sink[i].src.partition = sink[j].src.partition
    /\ sink[i].src.offset < sink[j].src.offset
    /\ sink[i].batch = sink[j].batch

FirstElementText(d) ==
  IF IsNull(FirstEntry(d)) THEN NULL ELSE V(FirstEntry(d).v.element)

====
